---- MODULE Spec2Model ----
(***************************************************************************)
(* hand2midi: the driver loop of src/main.rs (one polled tracking event    *)
(* per step) together with the pure helpers it calls.  Time is counted in  *)
(* milliseconds since the two Instant::now() calls at start-up.            *)
(***************************************************************************)
EXTENDS Integers, Naturals, Sequences, FiniteSets, TLC

VARIABLES
    samples,                    \* MovingAverage.samples
    last_hand_position,         \* (x, y) of the preceding right-hand step
    last_note_time,             \* Instant of the last completed note-on block
    last_program_change_time,   \* Instant of the last completed gesture
    program,                    \* current program number (u8)
    active_notes,               \* HashMap<u8, Instant>: pitch -> off time
    clock,                      \* the monotonic clock read by Instant::now()
    pc,                         \* "running", "panicked", "exited", "done"
    sent,                       \* messages delivered to the port by the last step
    wire,                       \* pitches with a delivered note-on and no note-off since
    issued,                     \* pitch -> [at, vel] of the note-on that recorded it
    step,                       \* what the last step read and decided
    steps,                      \* number of polled events so far
    inserted                    \* the last samples passed to add_sample, oldest first

vars == <<samples, last_hand_position, last_note_time, last_program_change_time,
          program, active_notes, clock, pc, sent, wire, issued, step, steps, inserted>>

----------------------------------------------------------------------------
(* Program constants *)

MAX_X == 300
MIN_X == -300
MAX_Y == 220
MIN_Y == 500
MAX_Z == 0
MIN_Z == -100
MIDI_CHANNEL == 2
MIDI_DELAY_MS == 1000
MOVING_AVERAGE_SAMPLES == 3
BASE_NOTE == 42
OCTAVE_SIZE == 12
max_duration == 5000
min_duration == 100
velocity_range == 127
PinchThreshold == 10

(* Bounds of the model *)

MaxSteps == 3               \* polled events in a run of Spec
MaxStepsFail == 2           \* polled events in a run of SpecFail
MaxTimeGesture == 3300      \* the clock stops advancing here in SpecGesture
MaxTimeWrap == 129000       \* the clock stops advancing here in SpecWrap
RampSteps == 5              \* the ramp of SpecRamp takes this many steps

----------------------------------------------------------------------------
(* Arithmetic helpers *)

Abs(a) == IF a < 0 THEN -a ELSE a

Min(a, b) == IF a < b THEN a ELSE b

Max(a, b) == IF a > b THEN a ELSE b

Clamp(v, lo, hi) == Max(lo, Min(hi, v))

\* i32 division: truncates toward zero
TruncDiv(a, b) == IF a >= 0 THEN a \div b ELSE -((-a) \div b)

\* f32::round of n/d: to nearest, halves away from zero
RoundDiv(n, d) ==
    LET nn == IF d < 0 THEN -n ELSE n
        dd == Abs(d)
        q  == (2 * Abs(nn) + dd) \div (2 * dd)
    IN  IF nn >= 0 THEN q ELSE -q

\* `as u8` of an integer wider than 8 bits keeps the low 8 bits
AsU8(n) == n % 256

\* the element of a one-element set
The(S) == CHOOSE r \in S : TRUE

RECURSIVE SumSeq(_)
SumSeq(s) == IF s = <<>> THEN 0 ELSE Head(s) + SumSeq(Tail(s))

----------------------------------------------------------------------------
(* Scale *)

\* the intervals of the major scale
MajorIntervals == <<0, 2, 4, 5, 7, 9, 11>>

MinorIntervals == <<0, 2, 3, 5, 7, 9, 10>>

generate_minor_scale(octaves) ==
    [k \in 1..(7 * octaves) |->
        BASE_NOTE + ((k - 1) \div 7) * OCTAVE_SIZE + MinorIntervals[((k - 1) % 7) + 1]]

scale == generate_minor_scale(3)

ScaleNotes == {scale[k] : k \in 1..Len(scale)}

\* the loop of find_nearest_note_in_scale from position k on
RECURSIVE NearestFrom(_, _, _, _, _)
NearestFrom(pitch, sc, k, nearest_note, min_distance) ==
    IF k > Len(sc) THEN nearest_note
    ELSE LET distance == Abs(pitch - sc[k])
         IN  IF distance < min_distance
             THEN NearestFrom(pitch, sc, k + 1, sc[k], distance)
             ELSE NearestFrom(pitch, sc, k + 1, nearest_note, min_distance)

\* a closest member of the scale, the higher of two equally close ones
find_nearest_note_prefer_higher(pitch, sc) ==
    CHOOSE r \in {sc[k] : k \in 1..Len(sc)} :
        \A k \in 1..Len(sc) :
            \/ Abs(pitch - r) < Abs(pitch - sc[k])
            \/ Abs(pitch - r) = Abs(pitch - sc[k]) /\ r >= sc[k]

find_nearest_note_in_scale(pitch, sc) == NearestFrom(pitch, sc, 1, sc[1], 255)

\* value * scale + offset, rounded, cast to u8 (saturating), clamped
map_to_midi(value, leap_min, leap_max, midi_range) ==
    LET leap_range == leap_max - leap_min
        midi_value == RoundDiv((value - leap_min) * midi_range + BASE_NOTE * leap_range,
                               leap_range)
    IN  Clamp(Clamp(midi_value, 0, 255), 0, 127)

\* Vec::binary_search(&note).unwrap(), as a 0-based index
ScaleIndex(note) == (CHOOSE k \in 1..Len(scale) : scale[k] = note) - 1

----------------------------------------------------------------------------
(* MovingAverage *)

MovingAverageNew == [k \in 1..MOVING_AVERAGE_SAMPLES |-> <<0, 0, 0>>]

add_sample(s, x, y, z) ==
    LET pushed == Append(s, <<x, y, z>>)
    IN  IF Len(pushed) > MOVING_AVERAGE_SAMPLES THEN Tail(pushed) ELSE pushed

get_smoothed_position(s) ==
    LET count == Len(s)
    IN  <<TruncDiv(SumSeq([k \in 1..count |-> s[k][1]]), count),
          TruncDiv(SumSeq([k \in 1..count |-> s[k][2]]), count),
          TruncDiv(SumSeq([k \in 1..count |-> s[k][3]]), count)>>

\* hand_tracking with the not-a-number test left out (NaN as i32 is 0)
hand_tracking_unchecked(raw, s) ==
    LET s2 == add_sample(s, raw.x, raw.y, raw.z)
    IN  [pos |-> get_smoothed_position(s2), samples |-> s2]

\* hand_tracking: the position of the step and the history after it
hand_tracking(raw, s) ==
    IF raw.nan
    THEN [pos |-> <<0, 0, 0>>, samples |-> s]
    ELSE LET s2 == add_sample(s, raw.x, raw.y, raw.z)
         IN  [pos |-> get_smoothed_position(s2), samples |-> s2]

----------------------------------------------------------------------------
(* Timing *)

\* tilt is palm().orientation().z() in eighths; the result is
\* (MIDI_DELAY_MS as f64 * rate) as u128 with rate = clamp(1 - |tilt|, 0.1, 0.8)
midi_delay(tilt8) == Clamp(MIDI_DELAY_MS - 125 * Abs(tilt8), 100, 800)

\* the duration without the minimum: 0 at velocity 127
duration_without_minimum(velocity) ==
    max_duration - ((velocity * max_duration) \div velocity_range)

duration(velocity) ==
    max_duration - ((velocity * (max_duration - min_duration)) \div velocity_range)

----------------------------------------------------------------------------
(* Protocol messages, as delivered to the output port *)

ProgramChange(prog) == <<"pc", prog>>

ControlChange(cc_number, value) == <<"cc", cc_number, value>>

NoteOn(note, velocity) == <<"on", note, velocity>>

NoteOff(note, velocity) == <<"off", note, velocity>>

IsNoteOn(m) == m[1] = "on"

\* the run of consecutive note-off messages for the pitches lo..hi, ascending
NoteOffRun(lo, hi) == <<"offs", lo, hi>>

\* m is, or holds, a note-off for pitch p
IsNoteOffFor(m, p) ==
    \/ m[1] = "off" /\ m[2] = p
    \/ m[1] = "offs" /\ m[2] <= p /\ p <= m[3]

IsNoteOnFor(m, p) == IsNoteOn(m) /\ m[2] = p

\* A send that fails in a step: the k-th send of one call site.
\*   "chord": send_midi_chord_on (1 program-change, 2..5 envelope CCs, 6..9 note-ons)
\*   "cc":    the four send_midi_cc calls after the chord
\*   "ci":    change_instrument (1..127 note-offs, 128 CC 123, 129 program-change)
\*   "off":   the send_midi_note_off calls of the expiry loop
NoFail == [site |-> "none", k |-> 0]

FailK(fail, site) == IF fail.site = site THEN fail.k ELSE 0

\* the offsets in ascending order
ChordOffsetsAscending == <<0, 2, 4, 6>>

ChordOffsets == <<6, 0, 2, 4>>

\* the for loop of send_midi_chord_on from its j-th offset on
RECURSIVE ChordNotes(_, _, _, _, _)
ChordNotes(note, velocity, j, failk, acc) ==
    IF j > Len(ChordOffsets) THEN [msgs |-> acc, result |-> "ok"]
    ELSE LET scale_index == ScaleIndex(note)
             at == scale_index + ChordOffsets[j]
         IN  IF at >= Len(scale) THEN [msgs |-> acc, result |-> "panic"]
             ELSE IF failk = 5 + j THEN [msgs |-> acc, result |-> "err"]
             ELSE ChordNotes(note, velocity, j + 1, failk,
                             Append(acc, NoteOn(scale[at + 1], velocity)))

send_midi_chord_on(note, velocity, prog, attack, decay, sustain, release, failk) ==
    LET head == <<ProgramChange(prog), ControlChange(1, attack), ControlChange(2, decay),
                  ControlChange(3, sustain), ControlChange(4, release)>>
    IN  IF failk \in 1..5
        THEN [msgs |-> SubSeq(head, 1, failk - 1), result |-> "err"]
        ELSE ChordNotes(note, velocity, 1, failk, head)

change_instrument(channel, prog, failk) ==
    LET offs == <<NoteOffRun(0, 126)>>
    IN  IF failk \in 1..127
        THEN [msgs |-> IF failk = 1 THEN <<>> ELSE <<NoteOffRun(0, failk - 2)>>,
              result |-> "err"]
        ELSE LET cc == IF failk = 128 THEN <<>> ELSE <<ControlChange(123, 0)>>
             IN  IF failk = 129
                 THEN [msgs |-> offs \o cc, result |-> "err"]
                 ELSE [msgs |-> offs \o cc \o <<ProgramChange(prog)>>, result |-> "ok"]

\* a set of pitches as a sequence (the iteration order of the map is not
\* specified; ascending order is taken)
RECURSIVE SetToSeq(_)
SetToSeq(S) ==
    IF S = {} THEN <<>>
    ELSE LET m == CHOOSE a \in S : \A b \in S : a <= b
         IN  <<m>> \o SetToSeq(S \ {m})

\* the note-off loop over notes_to_remove; a failed send is dropped (.ok())
ExpiryOffs(notes, failk) ==
    LET order == SetToSeq(notes)
    IN  [k \in 1..Len(order) |-> IF k = failk THEN <<"lost">> ELSE NoteOff(order[k], 0)]

Delivered(msgs) == SelectSeq(msgs, LAMBDA m : m[1] # "lost")

\* is pitch p sounding at the receiver after the first n messages of msgs,
\* when the pitches of w were sounding before them
SoundingAt(w, msgs, n, p) ==
    \/ \E i \in 1..n : /\ IsNoteOnFor(msgs[i], p)
                       /\ \A j \in (i + 1)..n : ~IsNoteOffFor(msgs[j], p)
    \/ p \in w /\ \A j \in 1..n : ~IsNoteOffFor(msgs[j], p)

NoteOnPitches(msgs) == {msgs[k][2] : k \in {i \in 1..Len(msgs) : IsNoteOn(msgs[i])}}

\* the pitches sounding at the receiver after msgs
WireAfter(w, msgs) ==
    {p \in w \cup NoteOnPitches(msgs) : SoundingAt(w, msgs, Len(msgs), p)}

\* the pitches that got a note-on in msgs while sounding
Retriggered(w, msgs) ==
    {msgs[i][2] : i \in {j \in 1..Len(msgs) :
                            IsNoteOn(msgs[j]) /\ SoundingAt(w, msgs, j - 1, msgs[j][2])}}

\* an insert that stores the value under the next key
MapInsertNextKey(f, key, val) ==
    [p \in DOMAIN f \cup {key + 1} |-> IF p = key + 1 THEN val ELSE f[p]]

MapInsert(f, key, val) ==
    [p \in DOMAIN f \cup {key} |-> IF p = key THEN val ELSE f[p]]

MapRemove(f, keys) == [p \in DOMAIN f \ keys |-> f[p]]

----------------------------------------------------------------------------
(* Inputs of a step *)

\* palm positions in mm (as i32): x, y, z
PointA == <<0, 600, -50>>
PointB == <<660, 600, -50>>
RawPoints == {PointA, PointB}

NaNSample == [nan |-> TRUE, x |-> 0, y |-> 0, z |-> 0]

RawSamples == {[nan |-> FALSE, x |-> q[1], y |-> q[2], z |-> q[3]] : q \in RawPoints}
              \cup {NaNSample}

Tilts == {0, 8}             \* orientation().z() in eighths
Pinches == {5, 10}          \* pinch_distance() in mm
Deltas == {100, 1000}  \* ms between two reads of the clock

FailSites == {NoFail,
              [site |-> "chord", k |-> 1], [site |-> "chord", k |-> 7],
              [site |-> "cc", k |-> 2],
              [site |-> "ci", k |-> 3], [site |-> "ci", k |-> 129],
              [site |-> "off", k |-> 1]}

----------------------------------------------------------------------------
(* One iteration of the `for hand in ... Right` loop, lines 235-364 *)

\* the gate with the elapsed-time test left out
RateGateNoTime(now, pos, tilt) ==
    <<pos[1] - last_hand_position[1], pos[2] - last_hand_position[2]>> # <<0, 0>>

\* lines 243-251: the rate gate
RateGate(now, pos, tilt) ==
    LET movement == <<pos[1] - last_hand_position[1], pos[2] - last_hand_position[2]>>
    IN  (now - last_note_time >= midi_delay(tilt)) /\ movement # <<0, 0>>

\* lines 314-334: the sends of the note-on block and the state they leave
NoteOnSends(now, nearest_note, velocity0, depth, dur, chord, cck) ==
    LET velocity == Min(velocity0, 127)
        ccs      == <<ControlChange(74, velocity), ControlChange(91, velocity),
                      ControlChange(92, AsU8(dur)), ControlChange(1, depth)>>
        base     == [root |-> nearest_note, velocity |-> velocity, failed |-> FALSE,
                     active |-> active_notes, issued |-> issued, lnt |-> last_note_time]
    IN  IF chord.result = "panic"
        THEN base @@ [msgs |-> chord.msgs, status |-> "panicked"]
        ELSE IF cck \in 1..4
        THEN [base EXCEPT !.failed = TRUE]
                 @@ [msgs |-> chord.msgs \o SubSeq(ccs, 1, cck - 1), status |-> "exited"]
        ELSE [base EXCEPT !.failed = (chord.result = "err"),
                          !.active = MapInsert(active_notes, nearest_note, now + dur),
                          !.issued = MapInsert(issued, nearest_note,
                                               [at |-> now, vel |-> velocity0]),
                          !.lnt = now]
                 @@ [msgs |-> chord.msgs \o ccs, status |-> "running"]

\* lines 252-334: the note-on block, entered when the gate is open
NoteOnBlock(now, pos, fail) ==
    The({NoteOnSends(now, nearest_note, velocity0, depth, dur, chord, FailK(fail, "cc")) :
            <<nearest_note, velocity0, depth, dur, chord>> \in
            {<<n, v, d, duration(v),
               send_midi_chord_on(n, Min(v, 127), program, 70, 100, 80,
                                  AsU8(duration(v)), FailK(fail, "chord"))>> :
                n \in {find_nearest_note_in_scale(
                           map_to_midi(pos[1], MIN_X, MAX_X, Len(scale)), scale)},
                v \in {map_to_midi(pos[2], MIN_Y, MAX_Y, 127)},
                d \in {map_to_midi(pos[3], MIN_Z, MAX_Z, Len(scale))}}})

\* the step when the gate is closed
NoNoteOn ==
    [root |-> 0, velocity |-> 0, failed |-> FALSE, active |-> active_notes,
     issued |-> issued, lnt |-> last_note_time, msgs |-> <<>>, status |-> "running"]

\* the scan with `now > off_time`
NotesToRemoveStrict(active, now) == {p \in DOMAIN active : now > active[p]}

\* lines 338-349: the expiry scan
NotesToRemove(active, now) == {p \in DOMAIN active : now >= active[p]}

\* the condition with the cooldown left out
PinchTriggerNoCooldown(now, pinch) == pinch < PinchThreshold

\* lines 352-353: the debounce condition
PinchTrigger(now, pinch) ==
    pinch < PinchThreshold /\ (now - last_program_change_time) \div 1000 >= 1

\* the instrument change with the increment not reduced modulo 128
GestureNoWrap(now, fail) ==
    [program |-> program + 1, lpct |-> now,
     msgs |-> change_instrument(MIDI_CHANNEL, program + 1, 0).msgs,
     status |-> "running", failed |-> FALSE]

\* lines 355-357: the instrument change of a detected pinch
Gesture(now, fail) ==
    LET prog == (program + 1) % 128
        ci   == change_instrument(MIDI_CHANNEL, prog, FailK(fail, "ci"))
    IN  IF ci.result = "err"
        THEN [program |-> prog, lpct |-> last_program_change_time,
              msgs |-> ci.msgs, status |-> "panicked", failed |-> TRUE]
        ELSE [program |-> prog, lpct |-> now,
              msgs |-> ci.msgs, status |-> "running", failed |-> FailK(fail, "ci") = 128]

\* the step when no pinch is detected, or the gesture is not reached
NoGesture(status) ==
    [program |-> program, lpct |-> last_program_change_time,
     msgs |-> <<>>, status |-> status, failed |-> FALSE]

\* the root of the latest step before this one whose gate was open, or -1
PrevRoot == IF step.gate THEN step.root ELSE step.prev_root

HandStep(dt, raw, tilt, pinch, fail) ==
    /\ pc = "running"
    /\ \E now \in {clock + dt}, ht \in {hand_tracking(raw, samples)} :
       \E gate \in {RateGate(now, ht.pos, tilt)} :
       /\ fail.site \in {"chord", "cc"} => gate
       /\ fail.site = "ci" => PinchTrigger(now, pinch)
       /\ \E on \in {IF gate THEN NoteOnBlock(now, ht.pos, fail) ELSE NoNoteOn} :
          \E notes_to_remove \in {NotesToRemove(on.active, now)},
             trigger \in {on.status = "running" /\ PinchTrigger(now, pinch)} :
          \E g \in {IF trigger THEN Gesture(now, fail) ELSE NoGesture(on.status)} :
          \E alive \in {g.status = "running"} :
          \E out \in {Delivered(on.msgs \o g.msgs
                                \o IF alive
                                   THEN ExpiryOffs(notes_to_remove, FailK(fail, "off"))
                                   ELSE <<>>)},
             failed \in {on.failed \/ g.failed
                         \/ (alive /\ FailK(fail, "off") \in 1..Cardinality(notes_to_remove))} :
          /\ fail # NoFail => failed     \* the failing send is one the step makes
          /\ clock' = now
          /\ samples' = ht.samples
          /\ inserted' = IF raw.nan THEN inserted
                         ELSE add_sample(inserted, raw.x, raw.y, raw.z)
          /\ last_note_time' = on.lnt
          /\ program' = g.program
          /\ last_program_change_time' = g.lpct
          /\ active_notes' = IF alive THEN MapRemove(on.active, notes_to_remove)
                             ELSE on.active
          /\ issued' = IF alive THEN MapRemove(on.issued, notes_to_remove) ELSE on.issued
          /\ last_hand_position' = IF alive THEN <<ht.pos[1], ht.pos[2]>>
                                   ELSE last_hand_position
          /\ pc' = IF ~alive THEN g.status
                   ELSE IF g.program = 200 THEN "done" ELSE "running"
          /\ sent' = out
          /\ wire' = WireAfter(wire, out)
          /\ step' = [kind |-> "hand", nan |-> raw.nan, pos |-> ht.pos, gate |-> gate,
                      delay |-> IF gate THEN midi_delay(tilt) ELSE 0,
                      root |-> on.root, prev_root |-> PrevRoot, velocity |-> on.velocity,
                      pinch |-> pinch, changed |-> trigger,
                      expired |-> IF alive THEN [p \in notes_to_remove |-> on.issued[p]]
                                  ELSE <<>>,
                      failed |-> failed]

\* a polled event that carries no right hand (or is not a tracking event)
NoHand(dt) ==
    /\ pc = "running"
    /\ clock' = clock + dt
    /\ pc' = IF program = 200 THEN "done" ELSE "running"
    /\ sent' = <<>>
    /\ step' = [kind |-> "nohand", nan |-> FALSE, pos |-> <<0, 0, 0>>, gate |-> FALSE,
                delay |-> 0, root |-> 0, prev_root |-> PrevRoot, velocity |-> 0,
                pinch |-> 0, changed |-> FALSE, expired |-> <<>>, failed |-> FALSE]
    /\ UNCHANGED <<samples, last_hand_position, last_note_time, last_program_change_time,
                   program, active_notes, wire, issued, inserted>>

\* connection.poll(10_000)? returns an error: main returns it
PollError ==
    /\ pc = "running"
    /\ pc' = "exited"
    /\ sent' = <<>>
    /\ step' = [step EXCEPT !.kind = "pollerr", !.gate = FALSE, !.prev_root = PrevRoot]
    /\ UNCHANGED <<samples, last_hand_position, last_note_time, last_program_change_time,
                   program, active_notes, clock, wire, issued, inserted>>

Init ==
    /\ samples = MovingAverageNew
    /\ last_hand_position = <<0, 0>>
    /\ last_note_time = 0
    /\ last_program_change_time = 0
    /\ program = 0
    /\ active_notes = <<>>
    /\ clock = 0
    /\ pc = "running"
    /\ sent = change_instrument(MIDI_CHANNEL, 0, 0).msgs
    /\ wire = {}
    /\ issued = <<>>
    /\ steps = 0
    /\ inserted = <<>>
    /\ step = [kind |-> "init", nan |-> FALSE, pos |-> <<0, 0, 0>>, gate |-> FALSE,
               delay |-> 0, root |-> 0, prev_root |-> -1, velocity |-> 0,
               pinch |-> 0, changed |-> FALSE, expired |-> <<>>, failed |-> FALSE]

----------------------------------------------------------------------------
(* Spec: the pipeline over a few polled events, every send succeeding *)

Tick == steps < MaxSteps /\ steps' = steps + 1

Next ==
    \/ \E dt \in Deltas, raw \in RawSamples, tilt \in Tilts, pinch \in Pinches :
          HandStep(dt, raw, tilt, pinch, NoFail) /\ Tick
    \/ \E dt \in Deltas : NoHand(dt) /\ Tick
    \/ PollError /\ Tick

Spec == Init /\ [][Next]_vars

(* SpecFail: the same events, one send of a step may fail *)

TickFail == steps < MaxStepsFail /\ steps' = steps + 1

NextFail ==
    \/ \E dt \in Deltas, raw \in RawSamples, tilt \in Tilts, pinch \in Pinches,
          fail \in FailSites :
          HandStep(dt, raw, tilt, pinch, fail) /\ TickFail
    \/ \E dt \in Deltas : NoHand(dt) /\ TickFail

SpecFail == Init /\ [][NextFail]_vars

(* SpecGesture: a hand held at PointA, pinching or not, 500 or 600 ms apart; *)
(* the program-change send of change_instrument may fail                    *)

GestureDeltas == {500, 600}

GestureFails == {NoFail, [site |-> "ci", k |-> 129]}

NextGesture ==
    \E dt \in GestureDeltas, pinch \in Pinches, fail \in GestureFails :
        /\ clock + dt <= MaxTimeGesture
        /\ HandStep(dt, [nan |-> FALSE, x |-> PointA[1], y |-> PointA[2], z |-> PointA[3]],
                    0, pinch, fail)
        /\ UNCHANGED steps

SpecGesture == Init /\ [][NextGesture]_vars

(* SpecWrap: a pinching hand held at PointA for more than 128 seconds *)

WrapDeltas == {1000, 2000}

NextWrap ==
    \E dt \in WrapDeltas :
        /\ clock + dt <= MaxTimeWrap
        /\ HandStep(dt, [nan |-> FALSE, x |-> PointA[1], y |-> PointA[2], z |-> PointA[3]],
                    0, 5, NoFail)
        /\ UNCHANGED steps

SpecWrap == Init /\ [][NextWrap]_vars

(* SpecRamp: a flat, open hand moving on a straight line from              *)
(* (MIN_X, MIN_Y, MIN_Z) to (MAX_X, MAX_Y, MAX_Z) in RampSteps equal steps    *)

\* the k-th position of the line, cast to i32 as line 81 does
RampPoint(k) ==
    [c \in 1..3 |->
        TruncDiv(<<MIN_X, MIN_Y, MIN_Z>>[c] * (RampSteps - k)
                 + <<MAX_X, MAX_Y, MAX_Z>>[c] * k, RampSteps)]

RampDeltas == {400, 800, 1200}

NextRamp ==
    \E dt \in RampDeltas, q \in {RampPoint(steps)} :
        /\ steps <= RampSteps
        /\ HandStep(dt, [nan |-> FALSE, x |-> q[1], y |-> q[2], z |-> q[3]],
                    0, PinchThreshold, NoFail)
        /\ steps' = steps + 1

SpecRamp == Init /\ [][NextRamp]_vars

----------------------------------------------------------------------------
(* Properties *)

NoteOnCount(msgs) == Len(SelectSeq(msgs, IsNoteOn))

Completed == step.kind = "hand" /\ pc = "running"

\* C1: no pitch receives two note-on messages without a note-off for that
\* pitch in between: every note-on a step delivers goes to a pitch that is
\* not sounding at that point of the message stream.
C1_NoDoubleNoteOn == [][Retriggered(wire, sent') = {}]_vars

\* C2: after every note-on emission step, each pitch that was sent a note-on
\* is in the active-notes map with expiresAt = now + duration(velocity), so
\* no pitch sounds at the receiver while absent from the map.
C2_ChordPitchesTracked ==
    (Completed /\ step.gate) =>
        /\ \A p \in NoteOnPitches(sent) :
              /\ p \in DOMAIN active_notes
              /\ active_notes[p] = clock + duration(step.velocity)
        /\ wire \subseteq DOMAIN active_notes

\* C3: the expiry check runs in every iteration of the driver loop, with or
\* without a right-hand sample: after every polled event no tracked pitch
\* whose off time has passed is still in the map.
C3_ExpiryEveryIteration ==
    (step.kind \in {"hand", "nohand"} /\ pc = "running") =>
        \A p \in DOMAIN active_notes : clock < active_notes[p]

\* C4: a pitch recorded at time T with velocity v is kept by every scan with
\* now < T + duration(v) and returned by the first scan with
\* now >= T + duration(v), which removes it and sends exactly one note-off;
\* duration(v) = 5000 - v*4900/127 lies in [100, 5000], does not increase
\* with v, and duration(127) = 100.
C4_ExpiryAtDuration ==
    /\ \A v \in 0..127 :
          /\ duration(v) = 5000 - ((v * 4900) \div 127)
          /\ duration(v) \in 100..5000
          /\ v < 127 => duration(v + 1) <= duration(v)
    /\ duration(127) = 100
    /\ \A p \in DOMAIN active_notes :
          /\ issued[p].vel \in 0..127
          /\ active_notes[p] = issued[p].at + duration(issued[p].vel)
    /\ Completed =>
          /\ \A p \in DOMAIN active_notes :
                clock < issued[p].at + duration(issued[p].vel)
          /\ \A p \in DOMAIN step.expired :
                /\ clock >= step.expired[p].at + duration(step.expired[p].vel)
                /\ p \notin DOMAIN active_notes
                /\ Len(SelectSeq(sent, LAMBDA m : m = NoteOff(p, 0))) = 1

\* a scan returned one pitch at its off time and kept another
C4_Witness ==
    /\ Completed
    /\ \E p \in DOMAIN step.expired :
          clock = step.expired[p].at + duration(step.expired[p].vel)
    /\ \E q \in DOMAIN active_notes : clock < active_notes[q]

\* C5: for every root in the scale, also one whose index plus an offset
\* passes the last index, the chord is built with a clamped index: the step
\* sends four note-ons and is not aborted.
C5_ChordNeverAborts ==
    (step.kind = "hand" /\ step.gate) =>
        /\ pc # "panicked"
        /\ NoteOnCount(sent) = 4

\* C6: a failed send never ends the driver loop: the step goes on, and the
\* state is advanced as if the send had succeeded.
C6_SendFailureNotFatal ==
    (step.kind = "hand" /\ step.failed) =>
        /\ pc = "running"
        /\ step.gate => last_note_time = clock
        /\ step.changed => last_program_change_time = clock

\* C7: a step emits note-ons only if the time since the previous emission is
\* at least delay = 1000 ms * clamp(1 - |tilt|, 0.1, 0.8), which lies in
\* [100, 800] ms; so two consecutive emissions are at least 100 ms apart.
C7_RateGate ==
    [][(step'.kind = "hand" /\ (step'.gate \/ NoteOnCount(sent') > 0)) =>
          /\ step'.gate
          /\ step'.delay \in 100..800
          /\ \A t \in -8..8 : midi_delay(t) \in 100..800
          /\ clock' - last_note_time >= step'.delay
          /\ clock' - last_note_time >= 100]_vars

\* two emissions, the second after a delay of 800 ms or more
C7_Witness ==
    /\ Completed /\ step.gate /\ step.delay = 800
    /\ \E p, q \in DOMAIN issued :
          /\ issued[q].at = clock
          /\ issued[p].at + 800 <= clock

\* C8: in a step where the Smoother's position equals its position at the
\* preceding step (also when the raw sample was invalid and not inserted),
\* no note-on is emitted.
C8_NoRetriggerWithoutMovement ==
    [][(step'.kind = "hand"
        /\ get_smoothed_position(samples') = get_smoothed_position(samples)) =>
          ~step'.gate /\ NoteOnCount(sent') = 0]_vars

\* C9: the program is incremented in a step iff the pinch distance is below
\* 10 and at least 1 s has passed since lastTrigger, and then lastTrigger
\* becomes now; so two increments are at least 1 s apart.
C9_Debounce ==
    [][step'.kind = "hand" =>
          /\ (program' # program) <=>
                (step'.pinch < 10 /\ clock' - last_program_change_time >= 1000)
          /\ (program' # program) = step'.changed
          /\ program' # program =>
                /\ program' = (program + 1) % 128
                /\ pc' = "running" => last_program_change_time' = clock'
          /\ program' = program =>
                last_program_change_time' = last_program_change_time]_vars

\* two qualifying pinches 1100 ms apart gave two increments (1000, 2100),
\* with a qualifying pinch 500 ms after the first giving none
C9_Witness ==
    /\ Completed /\ step.changed
    /\ program = 2 /\ clock = 2100 /\ last_program_change_time = 2100

\* C10: the program number stays in [0,127], every increment takes p to
\* (p+1) mod 128, so the program is never 200 and the loop never leaves
\* through the `program == 200` check.
C10_ProgramRange ==
    [][/\ program \in 0..127 /\ program' \in 0..127
       /\ program' # program => program' = (program + 1) % 128
       /\ program' # 200
       /\ pc' # "done"]_vars

\* the increment from 127 wrapped to 0
C10_Witness ==
    /\ Completed /\ step.changed
    /\ program = 0 /\ clock >= 128000

\* C11: the messages of a note-on are sent in the order program-change,
\* control-changes 1, 2, 3, 4 (attack, decay, sustain, release), then the
\* note-ons of the chord pitches at offsets +6, +0, +2, +4 from the root; the
\* expiry scan of the step is taken with the same `now` on the map as the
\* note-on left it, and every note-off of the step follows all its note-ons.
C11_MessageOrder ==
    [][(step'.kind = "hand" /\ step'.gate) =>
          LET head == <<ProgramChange(program), ControlChange(1, 70),
                        ControlChange(2, 100), ControlChange(3, 80),
                        ControlChange(4, duration(step'.velocity) % 256)>>
              i    == ScaleIndex(step'.root)
              ons  == IF i + 6 < 21
                      THEN [j \in 1..4 |->
                               NoteOn(scale[i + <<6, 0, 2, 4>>[j] + 1], step'.velocity)]
                      ELSE <<>>
              off_time(p) == IF p = step'.root
                             THEN clock' + duration(step'.velocity)
                             ELSE active_notes[p]
          IN  /\ Len(sent') >= 5 + Len(ons)
              /\ SubSeq(sent', 1, 5 + Len(ons)) = head \o ons
              /\ \A a, b \in 1..Len(sent') :
                    (IsNoteOn(sent'[a]) /\ sent'[b][1] \in {"off", "offs"}) => a < b
              /\ pc' = "running" =>
                    /\ NoteOnCount(sent') = 4
                    /\ DOMAIN step'.expired =
                          {p \in DOMAIN active_notes \cup {step'.root} :
                              clock' >= off_time(p)}
                    /\ \A p \in DOMAIN step'.expired :
                          \E b \in 10..Len(sent') : sent'[b] = NoteOff(p, 0)]_vars

\* a step sent a chord and, after it, the note-off of an expired pitch
C11_Witness ==
    /\ Completed /\ step.gate
    /\ NoteOnCount(sent) = 4
    /\ \E p \in DOMAIN step.expired : sent[Len(sent)] = NoteOff(p, 0)

\* C12: after n >= 1 calls of add_sample on a fresh MovingAverage, the
\* smoothed position is the component-wise mean, truncated toward zero, of
\* exactly the last min(n, 3) samples added: before three samples were added
\* only the added ones contribute.
C12_MeanOfInserted ==
    Len(inserted) >= 1 =>
        get_smoothed_position(samples) =
            [c \in 1..3 |->
                TruncDiv(SumSeq([k \in 1..Len(inserted) |-> inserted[k][c]]),
                         Len(inserted))]

\* C13: from a fresh pipeline, with the raw position moving on a straight
\* line from (MIN_X, MIN_Y, MIN_Z) to (MAX_X, MAX_Y, MAX_Z) and tilt 0, the
\* roots of the emitted chords never decrease: every emission has a root at
\* least the root of the emission before it, whatever the timing.
C13_RampMonotone ==
    (step.kind = "hand" /\ step.gate /\ step.prev_root # -1) =>
        step.root >= step.prev_root

\* C14: every control-change message the pipeline sends (controllers 1-4 of
\* the envelope, and 74, 91, 92, 1 after the chord) carries a value in
\* 0..127, for every velocity and the duration derived from it.
C14_ControlValuesInRange ==
    \A i \in 1..Len(sent) :
        sent[i][1] = "cc" => (sent[i][2] \in 0..127 /\ sent[i][3] \in 0..127)

\* C15: on every detected pinch the instrument change sends, in this order,
\* a note-off for every pitch of the channel (0..127), then control-change
\* 123, then the program-change with the incremented program; the gesture's
\* program-change is not sent before those note-offs.
C15_AllNotesOffFirst ==
    [][(step'.kind = "hand" /\ step'.changed /\ pc' = "running") =>
          \E c, g \in 1..Len(sent') :
              /\ c < g
              /\ sent'[c] = ControlChange(123, 0)
              /\ sent'[g] = ProgramChange((program + 1) % 128)
              /\ \A p \in 0..127 : \E o \in 1..(c - 1) : IsNoteOffFor(sent'[o], p)]_vars

NearestOfPitch == [p \in 0..127 |-> find_nearest_note_in_scale(p, scale)]

\* every value of NearestOfPitch is a closest member of the scale, and the
\* lowest of the closest ones
NearestIsLowestClosest ==
    \A p \in 0..127 :
        /\ NearestOfPitch[p] \in ScaleNotes
        /\ \A n \in ScaleNotes :
              /\ Abs(p - NearestOfPitch[p]) <= Abs(p - n)
              /\ Abs(p - NearestOfPitch[p]) = Abs(p - n) => NearestOfPitch[p] <= n

\* C17: for every pitch p in 0..127, find_nearest_note_in_scale(p, scale)
\* is a member of the 21-note scale at minimal absolute distance from p, and
\* the lower one when two members are equally close; the root of every chord
\* is that member for the pitch mapped from the smoothed x.
C17_NearestIsClosest ==
    /\ NearestIsLowestClosest
    /\ (step.kind = "hand" /\ step.gate) =>
          LET p == map_to_midi(step.pos[1], MIN_X, MAX_X, 21)
          IN  /\ step.root \in ScaleNotes
              /\ \A n \in ScaleNotes :
                    /\ Abs(p - step.root) <= Abs(p - n)
                    /\ Abs(p - step.root) = Abs(p - n) => step.root <= n

\* a chord whose mapped pitch lies midway between two members of the scale
C17_Witness ==
    /\ Completed /\ step.gate
    /\ LET p == map_to_midi(step.pos[1], MIN_X, MAX_X, 21)
       IN  /\ p - 1 \in ScaleNotes /\ p + 1 \in ScaleNotes
           /\ step.root = p - 1

\* C18: generate_minor_scale(3), with base 42 and intervals 0, 2, 3, 5, 7, 9, 10,
\* has exactly 21 values, strictly ascending, the first 42 and the last 76;
\* the element of octave o and interval i is 42 + 12*o + intervals[i].  The
\* pitches of every chord are elements of it.
C18_ScaleShape ==
    /\ Len(scale) = 21
    /\ scale[1] = 42 /\ scale[21] = 76
    /\ \A k \in 1..20 : scale[k] < scale[k + 1]
    /\ Cardinality(ScaleNotes) = 21
    /\ \A o \in 0..2, i \in 0..6 :
          scale[7 * o + i + 1] = 42 + 12 * o + <<0, 2, 3, 5, 7, 9, 10>>[i + 1]
    /\ scale = <<42, 44, 45, 47, 49, 51, 52, 54, 56, 57, 59, 61, 63, 64,
                 66, 68, 69, 71, 73, 75, 76>>
    /\ (step.kind = "hand" /\ step.gate) =>
          /\ step.root \in {42 + 12 * o + d : o \in 0..2, d \in {0, 2, 3, 5, 7, 9, 10}}
          /\ NoteOnPitches(sent) \subseteq
                {42 + 12 * o + d : o \in 0..2, d \in {0, 2, 3, 5, 7, 9, 10}}

\* a chord over the second and third octave: root 59 with 69, 63 and 66
C18_Witness ==
    /\ Completed /\ step.gate
    /\ step.root = 59
    /\ NoteOnPitches(sent) = {59, 63, 66, 69}

\* C19: in every reachable state the keys of the active-notes map are
\* pitches of the 21-note scale, so the map never holds more than 21
\* entries however many note-ons are issued.
C19_ActiveNotesInScale ==
    /\ DOMAIN active_notes \subseteq ScaleNotes
    /\ Cardinality(DOMAIN active_notes) <= 21
    /\ Cardinality(ScaleNotes) = 21
    /\ (step.kind = "hand" /\ step.gate /\ pc = "running") =>
          /\ step.root \in ScaleNotes
          /\ DOMAIN active_notes \subseteq
                (DOMAIN issued \cup {step.root}) \ DOMAIN step.expired

\* two roots are tracked at once
C19_Witness ==
    /\ Completed /\ step.gate
    /\ Cardinality(DOMAIN active_notes) >= 2
    /\ step.root \in DOMAIN active_notes

\* C20: at the end of every step that processed a right-hand sample no entry
\* of the active-notes map has an off time <= now, and the pitch inserted by
\* the note-on of the step is not removed by the expiry of the same step,
\* its off time being at least 100 ms after now.
C20_NoDueNoteLeft ==
    Completed =>
        /\ \A p \in DOMAIN active_notes : active_notes[p] > clock
        /\ step.gate =>
              /\ step.root \in DOMAIN active_notes
              /\ step.root \notin DOMAIN step.expired
              /\ active_notes[step.root] >= clock + 100
              /\ NoteOff(step.root, 0) \notin {sent[i] : i \in 1..Len(sent)}

\* a step inserted its root, kept it, and removed another pitch that was due
C20_Witness ==
    /\ Completed /\ step.gate
    /\ active_notes[step.root] = clock + 100
    /\ DOMAIN step.expired # {}

====
